---- MODULE Spec2Model ----
(***************************************************************************)
(* Model of the interview agent: the page of app.py, the completion        *)
(* gateway of utils/openai_client.py (get_chat_response, generate_summary, *)
(* generate_evaluation, create_messages_with_system_prompt), the store of  *)
(* utils/supabase_client.py (save_conversation,                            *)
(* save_conversation_with_summary) and the logging helpers of              *)
(* utils/logger.py they call.                                              *)
(*                                                                         *)
(* Six specifications share the variables:                                 *)
(*   Spec        a caller invokes save_conversation_with_summary,          *)
(*               save_conversation, generate_summary, generate_evaluation  *)
(*               or create_messages_with_system_prompt with arbitrary      *)
(*               arguments;                                                *)
(*   SpecChat    a consumer drains the get_chat_response generator;        *)
(*   SpecApp     a user works one page: chat turns, End Conversation,      *)
(*               Start New Conversation, one script run per widget event;  *)
(*   SpecLive    one session of the page and direct calls, with fairness   *)
(*               of the program's steps;                                   *)
(*   SpecClients a caller invokes the two client getters;                  *)
(*   SpecRace    threads race in one client getter.                        *)
(* The remote services are the environment: every completion call and      *)
(* every store write chooses its outcome nondeterministically.             *)
(***************************************************************************)
EXTENDS Integers, Sequences, FiniteSets, TLC

VARIABLES
    api_key,          \* OPENAI_API_KEY of the process: "absent" | "present"
    store_env,        \* SUPABASE_URL/SUPABASE_KEY: "absent" | "valid"
    openai_client,    \* module global _openai_client: "none" | "client"
    supabase_client,  \* module global _supabase_client: "none" | "client"
    pc,               \* position of the running call
    caller,           \* who called save_conversation: "direct" | "sws"
    session_id,       \* argument session_id
    messages,         \* argument messages
    summary,          \* local/argument summary (None or <<text>>)
    evaluation,       \* local/argument evaluation (None or <<dict>>)
    attempt,          \* loop variable attempt of the running retry loop
    result,           \* outcome of the finished call
    sc_result,        \* outcome of the last save_conversation call
    calls,            \* observable effects of the running call, in order
    stream,           \* get_chat_response: number of chunks read from the open stream
    yielded,          \* get_chat_response: the fragments handed to the consumer
    ss_messages,      \* st.session_state.messages
    ss_session_id,    \* st.session_state.session_id
    conversation_ended, \* st.session_state.conversation_ended
    error_count,      \* st.session_state.error_count
    ui_pc,            \* position of the script run of app.py ("none": no page is open)
    uuids,            \* number of session ids generate_session_id has returned
    store,            \* the inserts executed for the page's sessions, in order
    faults,           \* number of remote failures the page has met
    threads           \* the threads racing in a client getter (SpecRace), by position

vars == <<api_key, store_env, openai_client, supabase_client, pc, caller,
          session_id, messages, summary, evaluation, attempt, result, sc_result,
          calls, stream, yielded, ss_messages, ss_session_id, conversation_ended,
          error_count, ui_pc, uuids, store, faults, threads>>

\* the state of the page of app.py, and the threads (a running call is one
\* thread and leaves both alone)
ui_vars == <<ss_messages, ss_session_id, conversation_ended, error_count, ui_pc, uuids,
             store, faults, threads>>

(***************************************************************************)
(* Bounds of the model.                                                    *)
(***************************************************************************)
MaxMsgs == 2
MaxChunks == 2
\* user messages accepted in one session of the page
MaxTurns == 2
\* session ids generated for one page
MaxSessions == 2
\* remote failures (completion calls, store writes) met by one page
MaxFaults == 1
\* calls of the client getters in one process
MaxClientCalls == 4
\* threads calling a client getter at the same time
MaxThreads == 2

(***************************************************************************)
(* Program constants.                                                      *)
(***************************************************************************)
sc_max_retries == 3
sc_retry_delay == 1
gcr_max_retries == 3
gcr_retry_delay == 1

(***************************************************************************)
(* Python values.  An Optional is None (the empty tuple) or <<value>>.     *)
(***************************************************************************)
None == <<>>

Some(x) == <<x>>

\* 2 ** k for the exponents the retry loops use
Pow2(k) == IF k = 0 THEN 1 ELSE IF k = 1 THEN 2 ELSE IF k = 2 THEN 4 ELSE 8

\* str.strip() on the texts of the model
Strip(s) ==
    CASE s = " " -> ""
      [] s = " Summary. " -> "Summary."
      [] OTHER -> s

\* A message element: a dict with some of the keys role/content, or a non-dict.
Msg(r, c) == [role |-> r, content |-> c]

NoContentMsg == [role |-> "user"]

NonDictMsg == [nondict |-> TRUE]

IsDict(m) == "nondict" \notin DOMAIN m

HasKey(m, k) == IsDict(m) /\ k \in DOMAIN m

\* The messages argument: a list, None, or a non-empty str (a non-list with a length).
ListArg(s) == [kind |-> "list", items |-> s]

NoneArg == [kind |-> "none", items |-> <<>>]

StrArg == [kind |-> "str", items |-> <<>>]

\* ... or a non-zero int (a non-list without a length)
IntArg == [kind |-> "int", items |-> <<>>]

\* bool(messages)
Truthy(m) == m.kind \in { "str", "int" } \/ (m.kind = "list" /\ Len(m.items) > 0)

\* whether len(messages) is defined
HasLen(m) == m.kind \notin { "none", "int" }

\* The session_id argument: a str or another JSON-serialisable value.
StrId(s) == [isstr |-> TRUE, v |-> s]

IntId == [isstr |-> FALSE, v |-> "123"]

MsgElems ==
    { Msg("user", "Hi"), Msg("assistant", "Hello"), Msg("user", " "),
      NoContentMsg, NonDictMsg }

RECURSIVE SeqsUpTo(_, _)
SeqsUpTo(S, n) ==
    IF n = 0 THEN { <<>> }
    ELSE LET shorter == SeqsUpTo(S, n - 1)
         IN  shorter \cup { Append(s, x) : s \in { t \in shorter : Len(t) = n - 1 }, x \in S }

MessagesArgs == { ListArg(s) : s \in SeqsUpTo(MsgElems, MaxMsgs) } \cup { NoneArg, StrArg }

SessionIds == { StrId("s1"), StrId(""), IntId }

(***************************************************************************)
(* utils/logger.py                                                         *)
(***************************************************************************)
\* ErrorLogger.log_warning(message, context, additional_data=None): a call
\* with nargs positional arguments raises TypeError when context is missing.
LogWarningRaises(nargs) == nargs < 2

(***************************************************************************)
(* utils/openai_client.py: the client singleton and the two generators of  *)
(* the enrichment (summary, evaluation).                                   *)
(***************************************************************************)
\* Failure classes of a completion call, as the except clauses tell them apart.
FailKinds == { "rate_limit", "timeout", "connection", "auth", "other" }

\* get_openai_client(): succeeds when a client is cached or the key is set.
GetOpenaiClientOk(client, key) == client = "client" \/ key = "present"

\* _openai_client after get_openai_client(): a failed construction caches nothing.
OpenaiClientAfter(client, key) ==
    IF client = "none" /\ key = "present" THEN "client" ELSE client

\* Whether building conversation_text raises: iterating a str indexes a
\* character with 'role' (TypeError), a non-dict element likewise, and a dict
\* without 'role' raises KeyError.
ConversationTextRaises(m) ==
    \/ m.kind = "str"
    \/ \E i \in 1..Len(m.items) : ~HasKey(m.items[i], "role")

\* conversation_text, as the sequence of its "Role: content" lines: the
\* user/assistant messages whose content is non-blank, in order.
KeepsLine(x) ==
    /\ x.role \in { "user", "assistant" }
    /\ HasKey(x, "content")
    /\ Strip(x.content) # ""

ConversationText(m) == SelectSeq(m.items, KeepsLine)

SUMMARY_NO_CONVERSATION == "No conversation to summarize."

SUMMARY_NO_CONTENT == "No meaningful conversation content to summarize."

SUMMARY_UNABLE == "Unable to generate summary due to technical difficulties."

\* Outcomes of the summary completion call: the reply's content, or a failure.
ApiFail(k) == [ok |-> FALSE, content |-> None, kind |-> k]

ApiOk(c) == [ok |-> TRUE, content |-> c, kind |-> "none"]

\* The failures of the two enrichment calls: one transient, one terminal
\* (generate_summary and generate_evaluation catch every class alike).
EnrichFailKinds == { "timeout", "auth" }

SummaryResps ==
    { ApiOk(Some("Summary.")), ApiOk(Some(" Summary. ")), ApiOk(Some(" ")), ApiOk(None) }
        \cup { ApiFail(k) : k \in EnrichFailKinds }

Returned(v, ev, cl) == [raised |-> FALSE, value |-> v, events |-> ev, client |-> cl]

Raised(ev, cl) == [raised |-> TRUE, value |-> None, events |-> ev, client |-> cl]

\* The except clause of generate_summary: its log_error arguments evaluate
\* len(messages), which raises out of the function for a None argument.
SummaryHandler(m, ev, cl) ==
    IF HasLen(m)
    THEN Returned(SUMMARY_UNABLE,
                  ev \o << [op |-> "log_error", context |-> "Summary generation"] >>, cl)
    ELSE Raised(ev, cl)

\* generate_summary(messages) with the singleton `client`, the key `key` and
\* the completion call answering `resp`.
GenerateSummary(m, client, key, resp) ==
    IF ~Truthy(m) THEN
        IF LogWarningRaises(1) THEN SummaryHandler(m, <<>>, client)
        ELSE Returned(SUMMARY_NO_CONVERSATION, <<>>, client)
    ELSE IF ~GetOpenaiClientOk(client, key) THEN SummaryHandler(m, <<>>, client)
    ELSE LET cl == OpenaiClientAfter(client, key) IN
        IF ConversationTextRaises(m) THEN SummaryHandler(m, <<>>, cl)
        ELSE IF ConversationText(m) = <<>> THEN
            IF LogWarningRaises(1) THEN SummaryHandler(m, <<>>, cl)
            ELSE Returned(SUMMARY_NO_CONTENT, <<>>, cl)
        ELSE LET ev == << [op |-> "create", purpose |-> "summary",
                           prompt |-> ConversationText(m)] >> IN
            IF ~resp.ok \/ resp.content = None THEN SummaryHandler(m, ev, cl)
            ELSE Returned(Strip(resp.content[1]), ev, cl)

(***************************************************************************)
(* generate_evaluation.  The reply text is a JSON object (with some of the *)
(* required fields), a JSON array, or prose of a given length.             *)
(***************************************************************************)
RAW_EXCERPT_LEN == 200

required_fields ==
    << "sentiment", "key_topics", "user_satisfaction", "conversation_quality",
       "main_concerns", "resolution_status" >>

FullObject ==
    [sentiment |-> "positive", key_topics |-> << "ai" >>, user_satisfaction |-> 8,
     conversation_quality |-> 7, main_concerns |-> << "runway" >>,
     resolution_status |-> "resolved"]

PartialObject ==
    [sentiment |-> "positive", user_satisfaction |-> 8, conversation_quality |-> 7,
     main_concerns |-> << "runway" >>, resolution_status |-> "resolved"]

ObjectText(o) == [shape |-> "object", obj |-> o, len |-> 40]

ArrayText == [shape |-> "array", obj |-> <<>>, len |-> 2]

ProseText(n) == [shape |-> "prose", obj |-> <<>>, len |-> n]

EvalTexts ==
    { ObjectText(FullObject), ObjectText(PartialObject), ArrayText,
      ProseText(RAW_EXCERPT_LEN), ProseText(RAW_EXCERPT_LEN + 1) }

EvalResps == { ApiOk(Some(t)) : t \in EvalTexts } \cup { ApiOk(None) }
                \cup { ApiFail(k) : k \in EnrichFailKinds }

\* json.loads: prose raises JSONDecodeError, the rest parses to its value.
JsonLoadsOk(t) == t.shape # "prose"

\* `field not in evaluation_data` for some required field
MissingFields(t) ==
    IF t.shape = "object"
    THEN { required_fields[i] : i \in 1..Len(required_fields) } \ DOMAIN t.obj
    ELSE { required_fields[i] : i \in 1..Len(required_fields) }

\* the default line 249 assigns to a missing field
BackfillDefault(f) ==
    CASE f \in { "key_topics", "main_concerns" } -> None
      [] f \in { "user_satisfaction", "conversation_quality" } -> 5
      [] f = "sentiment" -> "neutral"
      [] OTHER -> "unresolved"

Backfilled(t) ==
    [f \in DOMAIN t.obj \cup MissingFields(t) |->
        IF f \in DOMAIN t.obj THEN t.obj[f] ELSE BackfillDefault(f)]

\* Mutant of RawExcerpt: the whole text is kept.
RawExcerpt_NoTruncate(t) == [chars |-> t.len, ellipsis |-> FALSE]

\* evaluation_text[:200] + "..." if len(evaluation_text) > 200 else evaluation_text
RawExcerpt(t) ==
    IF t.len > RAW_EXCERPT_LEN
    THEN [chars |-> RAW_EXCERPT_LEN, ellipsis |-> TRUE]
    ELSE [chars |-> t.len, ellipsis |-> FALSE]

NeutralRecord(err) ==
    [sentiment |-> "neutral", key_topics |-> <<>>, user_satisfaction |-> 5,
     conversation_quality |-> 5, main_concerns |-> <<>>,
     resolution_status |-> "unresolved", error |-> err]

\* The error field is the pair << text, str(e) >>; the second part is empty
\* for the fixed texts.

ParseFailRecord(t) ==
    [sentiment |-> "neutral", key_topics |-> <<>>, user_satisfaction |-> 5,
     conversation_quality |-> 5, main_concerns |-> <<>>,
     resolution_status |-> "unresolved", error |-> << "Failed to parse evaluation JSON", "" >>,
     raw_response |-> RawExcerpt(t)]

\* The outer except clause of generate_evaluation (lines 268-281): the error
\* text is "Error generating evaluation: " followed by str(e).
EvaluationHandler(m, exc, ev, cl) ==
    IF HasLen(m)
    THEN Returned(NeutralRecord(<< "Error generating evaluation: ", exc >>),
                  ev \o << [op |-> "log_error", context |-> "Evaluation generation"] >>, cl)
    ELSE Raised(ev, cl)

\* lines 242-266: parse the reply and validate the required fields
ParseEvaluation(m, t, ev, cl) ==
    IF ~JsonLoadsOk(t) THEN Returned(ParseFailRecord(t), ev, cl)
    ELSE IF MissingFields(t) # {} THEN
        IF LogWarningRaises(1) THEN EvaluationHandler(m, "TypeError", ev, cl)
        ELSE IF t.shape = "object" THEN Returned(Backfilled(t), ev, cl)
        ELSE EvaluationHandler(m, "TypeError", ev, cl)
    ELSE Returned(t.obj, ev, cl)

\* generate_evaluation(messages)
GenerateEvaluation(m, client, key, resp) ==
    IF ~Truthy(m) THEN
        IF LogWarningRaises(1) THEN EvaluationHandler(m, "TypeError", <<>>, client)
        ELSE Returned(NeutralRecord(<< "No conversation to evaluate", "" >>), <<>>, client)
    ELSE IF ~GetOpenaiClientOk(client, key)
        THEN EvaluationHandler(m, "ValueError", <<>>, client)
    ELSE LET cl == OpenaiClientAfter(client, key) IN
        IF ConversationTextRaises(m) THEN EvaluationHandler(m, "KeyError", <<>>, cl)
        ELSE IF ConversationText(m) = <<>> THEN
            IF LogWarningRaises(1) THEN EvaluationHandler(m, "TypeError", <<>>, cl)
            ELSE Returned(NeutralRecord(<< "No meaningful conversation content to evaluate",
                                           "" >>), <<>>, cl)
        ELSE LET ev == << [op |-> "create", purpose |-> "evaluation",
                           prompt |-> ConversationText(m)] >> IN
            IF ~resp.ok THEN EvaluationHandler(m, resp.kind, ev, cl)
            ELSE IF resp.content = None THEN EvaluationHandler(m, "AttributeError", ev, cl)
            ELSE ParseEvaluation(m, resp.content[1], ev, cl)

(***************************************************************************)
(* create_messages_with_system_prompt (lines 283-332).                     *)
(***************************************************************************)
\* the text the system prompt tells the model to end its last message with
SENTINEL ==
    "INTERVIEW_COMPLETE - Please click the 'End Conversation' button to save your interview."

\* the text of utils/prompts.py SYSTEM_PROMPT
SYSTEM_PROMPT == "You are The Unfair Advantage Scout ..."

SystemMessage == Msg("system", SYSTEM_PROMPT)

\* Dicts whose role or content is not a str: nonstr names those keys.
NonTextContentMsg == [role |-> "user", content |-> "5", nonstr |-> { "content" }]

NonTextRoleMsg == [role |-> "5", content |-> "Hi", nonstr |-> { "role" }]

NoRoleMsg == [content |-> "Hi"]

\* isinstance(msg[k], str)
IsStrField(x, k) == "nonstr" \notin DOMAIN x \/ k \notin x.nonstr

\* lines 304-315: the ValueError text for element x, "" when x passes
CmspElemError(x) ==
    IF ~IsDict(x) THEN "must be a dictionary"
    ELSE IF ~HasKey(x, "role") \/ ~HasKey(x, "content")
        THEN "must have 'role' and 'content' keys"
    ELSE IF ~IsStrField(x, "role") \/ ~IsStrField(x, "content")
        THEN "role and content must be strings"
    ELSE IF x.role \notin { "user", "assistant" } THEN "role must be 'user' or 'assistant'"
    ELSE ""

\* the index of the first element the loop of line 303 rejects, 0 when none
CmspFirstBad(items) ==
    LET bad == { i \in 1..Len(items) : CmspElemError(items[i]) # "" } IN
    IF bad = {} THEN 0 ELSE CHOOSE i \in bad : \A j \in bad : i <= j

\* lines 296-315: the ValueError the validation raises, as << text, index >>
\* (index 0: the error is about the whole argument); "" when it passes
CmspValidationError(h) ==
    IF ~Truthy(h) THEN << "Conversation messages cannot be empty", 0 >>
    ELSE IF h.kind # "list" THEN << "Conversation messages must be a list", 0 >>
    ELSE IF CmspFirstBad(h.items) # 0
        THEN << CmspElemError(h.items[CmspFirstBad(h.items)]), CmspFirstBad(h.items) >>
    ELSE << "", 0 >>

\* lines 317-318: a log_warning (two arguments) for each blank content
CmspWarnings(items) ==
    LET Blank(x) == Strip(x.content) = ""
        W(i) == [op |-> "log_warning", context |-> "Message validation"]
    IN  [i \in 1..Len(SelectSeq(items, Blank)) |-> W(i)]

\* Mutant of CmspResult: the system message is appended instead of prepended.
CmspResult_Appended(items) == items \o << SystemMessage >>

\* lines 323-325: the list returned
CmspResult(items) == << SystemMessage >> \o items

\* create_messages_with_system_prompt(h): the list, or the exception that
\* leaves the function.  The except clause (lines 327-332) evaluates
\* len(h) if h else 0 for its log_error call before it re-raises.
Cmsp(h) ==
    LET err == CmspValidationError(h) IN
    IF err[1] = ""
    THEN [raised |-> "none", error |-> err, value |-> CmspResult(h.items),
          events |-> CmspWarnings(h.items)]
    ELSE IF Truthy(h) /\ ~HasLen(h)
    THEN [raised |-> "TypeError", error |-> << "object has no len()", 0 >>, value |-> <<>>,
          events |-> <<>>]
    ELSE [raised |-> "ValueError", error |-> err, value |-> <<>>,
          events |-> IF h.kind = "list"
                     THEN CmspWarnings(SubSeq(h.items, 1, err[2] - 1))
                          \o << [op |-> "log_error",
                                  context |-> "Message validation and system prompt creation"] >>
                     ELSE << [op |-> "log_error",
                              context |-> "Message validation and system prompt creation"] >>]

HistoryElems ==
    MsgElems \cup { SystemMessage, NonTextContentMsg, NonTextRoleMsg, NoRoleMsg }

HistoryArgs ==
    { ListArg(s) : s \in SeqsUpTo(HistoryElems, MaxMsgs) } \cup { NoneArg, StrArg, IntArg }

(***************************************************************************)
(* utils/supabase_client.py                                                *)
(***************************************************************************)
\* get_supabase_client(): a cached client is returned; otherwise a client is
\* constructed, which raises ValueError when the variables are missing.
GetSupabaseClientOk(client, env) == client = "client" \/ env = "valid"

SupabaseClientAfter(client, env) ==
    IF client = "none" /\ env = "valid" THEN "client" ELSE client

\* Mutant of ValidationFails: the check of messages (line 70) is missing.
ValidationFails_SkipsMessages(sid, m) ==
    \/ sid.v = "" \/ ~sid.isstr
    \/ \E i \in 1..Len(m.items) :
          ~IsDict(m.items[i]) \/ ~HasKey(m.items[i], "role") \/ ~HasKey(m.items[i], "content")

\* lines 67-76: the three validation checks of save_conversation
ValidationFails(sid, m) ==
    \/ sid.v = "" \/ ~sid.isstr
    \/ ~Truthy(m) \/ m.kind # "list"
    \/ \E i \in 1..Len(m.items) :
          ~IsDict(m.items[i]) \/ ~HasKey(m.items[i], "role") \/ ~HasKey(m.items[i], "content")

\* bool(summary), bool(evaluation) of lines 87 and 89
SummaryTruthy(s) == s # None /\ s[1] # ""

EvaluationTruthy(e) == e # None /\ DOMAIN e[1] # {}

\* lines 80-90: the row handed to insert; summary and evaluation are keys of
\* the row only when truthy
RowKeys(s, e) ==
    { "session_id", "messages", "created_at", "ended_at" }
        \cup (IF SummaryTruthy(s) THEN { "summary" } ELSE {})
        \cup (IF EvaluationTruthy(e) THEN { "evaluation" } ELSE {})

Row(sid, m, s, e) ==
    [k \in RowKeys(s, e) |->
        CASE k = "session_id" -> sid
          [] k = "messages" -> m.items
          [] k = "summary" -> s[1]
          [] k = "evaluation" -> e[1]
          [] OTHER -> "utcnow"]

\* The remote failures of the running call: the calls that logged an error
\* and the writes that did not return rows.
IsFault(e) == e.op = "log_error" \/ (e.op = "insert" /\ e.out # "data")

FaultsSoFar == faults + Len(SelectSeq(calls, IsFault))

\* A page meets at most MaxFaults remote failures; direct calls are not limited.
FaultAllowed == ui_pc = "none" \/ FaultsSoFar < MaxFaults

\* The answers of the two enrichment calls: for a page, one good answer and
\* one failure each; a direct call meets all of SummaryResps and EvalResps.
SummaryRespsNow ==
    IF ui_pc = "none" THEN SummaryResps
    ELSE { ApiOk(Some("Summary.")), ApiFail("timeout") }

EvalRespsNow ==
    IF ui_pc = "none" THEN EvalResps
    ELSE { ApiOk(Some(ObjectText(FullObject))), ApiFail("timeout") }

\* Outcomes of insert(data).execute(): rows returned, no rows, or an exception.
InsertOutcomes == { "data", "nodata", "raise" }

\* Mutant of ScRetries: the loop bound is off by one.
ScRetries_OffByOne(k) == k < sc_max_retries

\* line 116: another attempt follows a failed one
ScRetries(k) == k < sc_max_retries - 1

\* Mutant of ScBackoff: the delay is fixed.
ScBackoff_Fixed(k) == sc_retry_delay

\* line 117: the backoff before attempt k + 1
ScBackoff(k) == sc_retry_delay * Pow2(k)

Event(op) == [op |-> op]

\* save_conversation returns v to its caller.
ScReturn(v, ev) ==
    /\ sc_result' = v
    /\ calls' = calls \o ev
    /\ attempt' = attempt
    /\ IF caller = "sws"
       THEN pc' = "sws_return" /\ result' = result
       ELSE pc' = "done" /\ result' = v

\* lines 106-120: the except clause of the retry loop.  Its log_error
\* arguments evaluate len(messages), which raises for None.
ScHandler(ev) ==
    IF ~HasLen(messages) THEN ScReturn("raise", ev)
    ELSE IF ScRetries(attempt)
    THEN /\ calls' = calls \o ev \o << [op |-> "sleep", secs |-> ScBackoff(attempt)] >>
         /\ attempt' = attempt + 1
         /\ UNCHANGED <<pc, result, sc_result>>
    ELSE ScReturn("False", ev)

\* Mutant of ScAttempt: an insert that returns no data is handled like one
\* that raised.
ScAttempt_RetriesNoData ==
    /\ pc = "sc_attempt"
    /\ UNCHANGED ui_vars
    /\ UNCHANGED <<api_key, store_env, openai_client, caller, session_id, messages,
                   summary, evaluation, stream, yielded>>
    /\ LET begin == << [op |-> "attempt", n |-> attempt] >> IN
       IF ValidationFails(session_id, messages)
       THEN ScHandler(begin) /\ UNCHANGED supabase_client
       ELSE LET got == begin \o << Event("get_supabase_client") >> IN
            /\ supabase_client' = SupabaseClientAfter(supabase_client, store_env)
            /\ IF ~GetSupabaseClientOk(supabase_client, store_env)
               THEN ScHandler(got)
               ELSE \E out \in { o \in InsertOutcomes : o = "data" \/ FaultAllowed } :
                    LET ins == got \o << [op |-> "insert", n |-> attempt, out |-> out,
                                          data |-> Row(session_id, messages, summary, evaluation)] >>
                    IN  CASE out = "data" -> ScReturn("True", ins)
                          [] OTHER -> ScHandler(ins)

\* One iteration of the retry loop of save_conversation (lines 64-120).
ScAttempt ==
    /\ pc = "sc_attempt"
    /\ UNCHANGED ui_vars
    /\ UNCHANGED <<api_key, store_env, openai_client, caller, session_id, messages,
                   summary, evaluation, stream, yielded>>
    /\ LET begin == << [op |-> "attempt", n |-> attempt] >> IN
       IF ValidationFails(session_id, messages)
       THEN ScHandler(begin) /\ UNCHANGED supabase_client
       ELSE LET got == begin \o << Event("get_supabase_client") >> IN
            /\ supabase_client' = SupabaseClientAfter(supabase_client, store_env)
            /\ IF ~GetSupabaseClientOk(supabase_client, store_env)
               THEN ScHandler(got)
               ELSE \E out \in { o \in InsertOutcomes : o = "data" \/ FaultAllowed } :
                    LET ins == got \o << [op |-> "insert", n |-> attempt, out |-> out,
                                          data |-> Row(session_id, messages, summary, evaluation)] >>
                    IN  CASE out = "data" -> ScReturn("True", ins)
                          [] out = "nodata" -> ScReturn("False", ins)
                          [] OTHER -> ScHandler(ins)

\* A caller invokes save_conversation(session_id, messages, summary, evaluation).
CallSc(sid, m, s, e) ==
    /\ pc = "idle"
    /\ pc' = "sc_attempt"
    /\ caller' = "direct"
    /\ session_id' = sid /\ messages' = m /\ summary' = s /\ evaluation' = e
    /\ attempt' = 0 /\ result' = "pending" /\ sc_result' = "pending"
    /\ calls' = << [op |-> "save_conversation", summary |-> s, evaluation |-> e] >>
    /\ yielded' = <<>> /\ stream' = 0
    /\ UNCHANGED <<api_key, store_env, openai_client, supabase_client>>

\* Mutant of CallSws: the empty-messages guard is missing.
CallSws_NoGuard(sid, m) ==
    /\ pc = "idle"
    /\ caller' = "sws"
    /\ session_id' = sid /\ messages' = m /\ summary' = None /\ evaluation' = None
    /\ attempt' = 0 /\ sc_result' = "pending"
    /\ calls' = <<>>
    /\ yielded' = <<>> /\ stream' = 0
    /\ pc' = "sws_summary" /\ result' = "pending"
    /\ UNCHANGED <<api_key, store_env, openai_client, supabase_client>>

\* save_conversation_with_summary, lines 136-145: the empty-messages guard.
\* Its log_warning call raises, the outer except clause returns False.
CallSws(sid, m) ==
    /\ pc = "idle"
    /\ caller' = "sws"
    /\ session_id' = sid /\ messages' = m /\ summary' = None /\ evaluation' = None
    /\ attempt' = 0 /\ sc_result' = "pending"
    /\ calls' = <<>>
    /\ yielded' = <<>> /\ stream' = 0
    /\ IF ~Truthy(m)
       THEN pc' = "done" /\ result' = "False"
       ELSE pc' = "sws_summary" /\ result' = "pending"
    /\ UNCHANGED <<api_key, store_env, openai_client, supabase_client>>

\* The outer except clause (lines 182-187) evaluates
\* len(messages) if messages else 0, then returns False.
SwsOuterHandler ==
    IF Truthy(messages) /\ ~HasLen(messages)
    THEN pc' = "done" /\ result' = "raise"
    ELSE pc' = "done" /\ result' = "False"

\* The except clauses of lines 150-154 and 160-164 evaluate len(messages).
SwsInnerHandlerRaises == ~HasLen(messages)

\* lines 147-155: summary = generate_summary(messages), best effort
SwsSummary ==
    /\ pc = "sws_summary"
    /\ UNCHANGED ui_vars
    /\ \E resp \in SummaryRespsNow :
        LET r == GenerateSummary(messages, openai_client, api_key, resp) IN
        /\ resp.ok \/ FaultAllowed
        /\ calls' = calls \o << Event("generate_summary") >> \o r.events
        /\ openai_client' = r.client
        /\ summary' = IF r.raised THEN summary ELSE Some(r.value)
        /\ IF r.raised /\ SwsInnerHandlerRaises
           THEN SwsOuterHandler
           ELSE pc' = "sws_evaluation" /\ result' = result
    /\ UNCHANGED <<api_key, store_env, supabase_client, caller, session_id, messages,
                   evaluation, attempt, sc_result, stream, yielded>>

\* lines 157-165: evaluation = generate_evaluation(messages), best effort
SwsEvaluation ==
    /\ pc = "sws_evaluation"
    /\ UNCHANGED ui_vars
    /\ \E resp \in EvalRespsNow :
        LET r == GenerateEvaluation(messages, openai_client, api_key, resp) IN
        /\ resp.ok \/ FaultAllowed
        /\ calls' = calls \o << Event("generate_evaluation") >> \o r.events
        /\ openai_client' = r.client
        /\ evaluation' = IF r.raised THEN evaluation ELSE Some(r.value)
        /\ IF r.raised /\ SwsInnerHandlerRaises
           THEN SwsOuterHandler
           ELSE pc' = "sws_save" /\ result' = result
    /\ UNCHANGED <<api_key, store_env, supabase_client, caller, session_id, messages,
                   summary, attempt, sc_result, stream, yielded>>

\* Mutant of SwsSave: the save is abandoned when the summary could not be generated.
SwsSave_SkipsAfterFailedSummary ==
    /\ pc = "sws_save"
    /\ UNCHANGED ui_vars
    /\ IF summary = Some(SUMMARY_UNABLE)
       THEN pc' = "done" /\ result' = "False" /\ UNCHANGED <<attempt, calls>>
       ELSE /\ pc' = "sc_attempt"
            /\ attempt' = 0
            /\ result' = result
            /\ calls' = Append(calls, [op |-> "save_conversation", summary |-> summary,
                                       evaluation |-> evaluation])
    /\ UNCHANGED <<api_key, store_env, openai_client, supabase_client, caller, session_id,
                   messages, summary, evaluation, sc_result, stream, yielded>>

\* line 168: success = save_conversation(session_id, messages, summary, evaluation)
SwsSave ==
    /\ pc = "sws_save"
    /\ UNCHANGED ui_vars
    /\ pc' = "sc_attempt"
    /\ attempt' = 0
    /\ calls' = Append(calls, [op |-> "save_conversation", summary |-> summary,
                               evaluation |-> evaluation])
    /\ UNCHANGED <<api_key, store_env, openai_client, supabase_client, caller, session_id,
                   messages, summary, evaluation, result, sc_result, stream, yielded>>

\* Mutant of SwsReturn: a failed evaluation makes the overall result False.
SwsReturn_NeedsEvaluation ==
    /\ pc = "sws_return"
    /\ UNCHANGED ui_vars
    /\ pc' = "done"
    /\ result' = IF sc_result = "True" /\ "error" \notin DOMAIN evaluation[1]
                 THEN "True" ELSE "False"
    /\ UNCHANGED <<api_key, store_env, openai_client, supabase_client, caller, session_id,
                   messages, summary, evaluation, attempt, sc_result, calls, stream, yielded>>

\* lines 170-180: return success (an exception of save_conversation reaches
\* the outer except clause)
SwsReturn ==
    /\ pc = "sws_return"
    /\ UNCHANGED ui_vars
    /\ IF sc_result = "raise" THEN SwsOuterHandler
       ELSE pc' = "done" /\ result' = sc_result
    /\ UNCHANGED <<api_key, store_env, openai_client, supabase_client, caller, session_id,
                   messages, summary, evaluation, attempt, sc_result, calls, stream, yielded>>

\* A caller invokes create_messages_with_system_prompt(h).
CallCmsp(h) ==
    /\ pc = "idle"
    /\ pc' = "done"
    /\ caller' = "cmsp"
    /\ messages' = h
    /\ result' = IF Cmsp(h).raised = "none" THEN "returned" ELSE Cmsp(h).raised
    /\ calls' = Cmsp(h).events
                    \o (IF Cmsp(h).raised = "none"
                        THEN << [op |-> "return", value |-> Cmsp(h).value] >>
                        ELSE << [op |-> "raise", error |-> Cmsp(h).error] >>)
    /\ UNCHANGED <<api_key, store_env, openai_client, supabase_client, session_id,
                   summary, evaluation, attempt, sc_result, stream, yielded>>

\* The outcome of a direct call of one of the two generators: the effects of
\* the call, then what it returned (or that it raised), with the answer the
\* completion service had for it.
GeneratorOutcome(fn, r, resp) ==
    /\ caller' = fn
    /\ openai_client' = r.client
    /\ result' = IF r.raised THEN "raise" ELSE "returned"
    /\ calls' = r.events \o << [op |-> IF r.raised THEN "raise" ELSE "return",
                                 value |-> r.value, reply |-> resp] >>

\* A caller invokes generate_summary(m); the completion service answers resp.
CallGs(m, resp) ==
    /\ pc = "idle"
    /\ pc' = "done"
    /\ messages' = m
    /\ GeneratorOutcome("generate_summary",
                        GenerateSummary(m, openai_client, api_key, resp), resp)
    /\ UNCHANGED <<api_key, store_env, supabase_client, session_id, summary, evaluation,
                   attempt, sc_result, stream, yielded>>

\* A caller invokes generate_evaluation(m); the completion service answers resp.
CallGe(m, resp) ==
    /\ pc = "idle"
    /\ pc' = "done"
    /\ messages' = m
    /\ GeneratorOutcome("generate_evaluation",
                        GenerateEvaluation(m, openai_client, api_key, resp), resp)
    /\ UNCHANGED <<api_key, store_env, supabase_client, session_id, summary, evaluation,
                   attempt, sc_result, stream, yielded>>

\* The arguments a direct caller of save_conversation passes for the enrichment.
EnrichmentArgs ==
    { << None, None >>, << Some(""), None >>, << Some("Summary."), Some(FullObject) >> }

\* No call is running: the locals of the last call are gone, the module
\* globals (the two client singletons) and the environment stay.
NoCall ==
    /\ pc = "idle"
    /\ caller = "direct"
    /\ session_id = StrId("")
    /\ messages = NoneArg
    /\ summary = None
    /\ evaluation = None
    /\ attempt = 0
    /\ result = "pending"
    /\ sc_result = "pending"
    /\ calls = <<>>
    /\ stream = 0
    /\ yielded = <<>>

\* No page of app.py is open: the functions are called directly.
NoPage ==
    /\ ss_messages = <<>>
    /\ ss_session_id = StrId("")
    /\ conversation_ended = FALSE
    /\ error_count = 0
    /\ ui_pc = "none"
    /\ uuids = 0
    /\ store = <<>>
    /\ faults = 0
    /\ threads = <<>>

Init ==
    /\ api_key \in { "absent", "present" }
    /\ store_env \in { "absent", "valid" }
    /\ openai_client = "none"
    /\ supabase_client = "none"
    /\ NoCall
    /\ NoPage

\* The caller has taken the outcome of the finished call.
Finish ==
    /\ pc = "done"
    /\ UNCHANGED ui_vars
    /\ pc' = "idle"
    /\ caller' = "direct"
    /\ session_id' = StrId("")
    /\ messages' = NoneArg
    /\ summary' = None
    /\ evaluation' = None
    /\ attempt' = 0
    /\ result' = "pending"
    /\ sc_result' = "pending"
    /\ calls' = <<>>
    /\ stream' = 0
    /\ yielded' = <<>>
    /\ UNCHANGED <<api_key, store_env, openai_client, supabase_client>>

\* A caller starts a call when none is running (pc = "idle").
Next ==
    \/ pc = "idle" /\ \E sid \in SessionIds, m \in MessagesArgs :
          CallSws(sid, m) /\ UNCHANGED ui_vars
    \/ pc = "idle" /\ \E sid \in SessionIds, m \in MessagesArgs, se \in EnrichmentArgs :
          CallSc(sid, m, se[1], se[2]) /\ UNCHANGED ui_vars
    \/ pc = "idle" /\ \E h \in HistoryArgs : CallCmsp(h) /\ UNCHANGED ui_vars
    \/ pc = "idle" /\ \E m \in MessagesArgs, resp \in SummaryResps :
          CallGs(m, resp) /\ UNCHANGED ui_vars
    \/ pc = "idle" /\ \E m \in MessagesArgs, resp \in EvalResps :
          CallGe(m, resp) /\ UNCHANGED ui_vars
    \/ SwsSummary
    \/ SwsEvaluation
    \/ SwsSave
    \/ SwsReturn
    \/ ScAttempt
    \/ Finish

Spec == Init /\ [][Next]_vars

(***************************************************************************)
(* utils/openai_client.py: get_chat_response, a generator.  Each attempt   *)
(* obtains the client, opens the stream with create and yields the         *)
(* fragments as they arrive; an exception at any of these points reaches   *)
(* the except clauses of the attempt.                                      *)
(***************************************************************************)
MSG_RATE_LIMIT == "I'm currently experiencing high demand. Please try again in a few moments."

MSG_TIMEOUT == "The request timed out. Please try again."

MSG_CONNECTION ==
    "I'm having trouble connecting. Please check your internet connection and try again."

MSG_AUTH == "Authentication error. Please contact support."

MSG_OTHER ==
    "I apologize, but I'm experiencing technical difficulties. Please try again later."

\* Mutant of Placeholder: every clause yields the generic apology.
Placeholder_Generic(k) == MSG_OTHER

\* the string the except clause of kind k yields when it gives up
Placeholder(k) ==
    CASE k = "rate_limit" -> MSG_RATE_LIMIT
      [] k = "timeout" -> MSG_TIMEOUT
      [] k = "connection" -> MSG_CONNECTION
      [] k = "auth" -> MSG_AUTH
      [] OTHER -> MSG_OTHER

\* Mutant of GcrRetries: an authentication failure is retried like the others.
GcrRetries_Auth(k, n) == n < gcr_max_retries - 1

\* Mutant of GcrRetries: one more attempt is made.
GcrRetries_OneMore(k, n) == k # "auth" /\ n < gcr_max_retries

\* whether the except clause of kind k retries after 0-based attempt n
GcrRetries(k, n) == k # "auth" /\ n < gcr_max_retries - 1

\* the sleep before the retry: exponential for a rate limit, fixed otherwise
GcrBackoff(k, n) ==
    IF k = "rate_limit" THEN gcr_retry_delay * Pow2(n) ELSE gcr_retry_delay

\* delta.content of a chunk: a fragment, or None (a chunk without content)
Chunks == { Some("Hel"), Some("lo"), None }

\* the chunks of the stream: those of the page's replies when a page is open
StreamChunks == IF ui_pc = "none" THEN Chunks ELSE { Some(SENTINEL), None }

\* The classes create raises, and the class of an exception raised while the
\* open stream is iterated: the four classes caught by name are raised for a
\* request (HTTP status 429 and 401, connecting, the request timeout), a
\* broken stream raises another class and reaches the generic clause.
CreateFailKinds == FailKinds

StreamFailKinds == { "other" }

ChatPrompts ==
    { ListArg(<< Msg("system", "Script"), Msg("assistant", "Hello"), Msg("user", "Hi") >>) }

\* A consumer calls get_chat_response(messages) and starts draining it.
CallGcr(m) ==
    /\ pc = "idle"
    /\ pc' = "gcr_attempt"
    /\ messages' = m
    /\ attempt' = 0 /\ result' = "pending"
    /\ calls' = <<>> /\ yielded' = <<>> /\ stream' = 0
    /\ UNCHANGED <<api_key, store_env, openai_client, supabase_client, caller, session_id,
                   summary, evaluation, sc_result>>

\* The generator yields text to its consumer.
GcrYield(text, ev) ==
    /\ yielded' = Append(yielded, text)
    /\ calls' = calls \o ev \o << [op |-> "yield", text |-> text, n |-> attempt] >>

\* Mutant of GcrHandler: the placeholder is yielded before every retry too.
GcrHandler_YieldsBeforeRetry(k, ev) ==
    LET logged == ev \o << [op |-> "log_error", kind |-> k, n |-> attempt] >> IN
    /\ yielded' = Append(yielded, Placeholder(k))
    /\ result' = IF GcrRetries(k, attempt) THEN result ELSE "returned"
    /\ pc' = IF GcrRetries(k, attempt) THEN "gcr_attempt" ELSE "done"
    /\ attempt' = IF GcrRetries(k, attempt) THEN attempt + 1 ELSE attempt
    /\ stream' = IF GcrRetries(k, attempt) THEN 0 ELSE stream
    /\ calls' = calls \o logged
                    \o << [op |-> "yield", text |-> Placeholder(k), n |-> attempt] >>
                    \o (IF GcrRetries(k, attempt)
                        THEN << [op |-> "sleep", secs |-> GcrBackoff(k, attempt)] >>
                        ELSE <<>>)

\* lines 74-129: the except clause for a failure of kind k
GcrHandler(k, ev) ==
    LET logged == ev \o << [op |-> "log_error", kind |-> k, n |-> attempt] >> IN
    IF k = "other" /\ ~HasLen(messages)
    THEN \* the generic clause evaluates len(messages) for its log_error call
         /\ pc' = "done"
         /\ result' = "raise"
         /\ calls' = calls \o ev
         /\ UNCHANGED <<attempt, stream, yielded>>
    ELSE IF GcrRetries(k, attempt)
    THEN /\ calls' = calls \o logged \o << [op |-> "sleep", secs |-> GcrBackoff(k, attempt)] >>
         /\ attempt' = attempt + 1
         /\ pc' = "gcr_attempt"
         /\ stream' = 0
         /\ UNCHANGED <<yielded, result>>
    ELSE /\ GcrYield(Placeholder(k), logged)
         /\ pc' = "done"
         /\ result' = "returned"
         /\ UNCHANGED <<attempt, stream>>

\* lines 46-63: get the client and open the stream
GcrAttempt ==
    /\ pc = "gcr_attempt"
    /\ UNCHANGED ui_vars
    /\ openai_client' = OpenaiClientAfter(openai_client, api_key)
    /\ IF ~GetOpenaiClientOk(openai_client, api_key)
       THEN GcrHandler("other", <<>>)
       ELSE LET ev == << [op |-> "create", purpose |-> "chat", n |-> attempt,
                           messages |-> messages] >> IN
            \/ \E k \in CreateFailKinds : FaultAllowed /\ GcrHandler(k, ev)
            \/ /\ pc' = "gcr_stream"
               /\ calls' = calls \o ev
               /\ stream' = 0
               /\ UNCHANGED <<attempt, yielded, result>>
    /\ UNCHANGED <<api_key, store_env, supabase_client, caller, session_id, messages,
                   summary, evaluation, sc_result>>

\* lines 65-72: read the stream; a chunk with content is yielded
GcrStream ==
    /\ pc = "gcr_stream"
    /\ UNCHANGED ui_vars
    /\ \/ \E c \in StreamChunks :
            /\ stream < MaxChunks
            /\ stream' = stream + 1
            /\ IF c # None
               THEN GcrYield(c[1], <<>>)
               ELSE UNCHANGED <<yielded, calls>>
            /\ UNCHANGED <<pc, attempt, result>>
       \/ /\ pc' = "done"
          /\ result' = "returned"
          /\ UNCHANGED <<attempt, calls, stream, yielded>>
       \/ \E k \in StreamFailKinds : FaultAllowed /\ GcrHandler(k, <<>>)
    /\ UNCHANGED <<api_key, store_env, openai_client, supabase_client, caller, session_id,
                   messages, summary, evaluation, sc_result>>

NextChat ==
    \/ \E m \in ChatPrompts : CallGcr(m) /\ UNCHANGED ui_vars
    \/ GcrAttempt
    \/ GcrStream
    \/ Finish

SpecChat == Init /\ [][NextChat]_vars

(***************************************************************************)
(* app.py: the page.  Streamlit runs the script once for every widget      *)
(* event of the page, from initialize_session_state through main, and      *)
(* keeps st.session_state between the runs.  A run that calls              *)
(* get_chat_response or save_conversation_with_summary waits for that      *)
(* call (the actions above) and then goes on to its end.                   *)
(***************************************************************************)
\* line 317 (line 315 in test mode): the greeting
INITIAL_MESSAGE == "Hello! I'm The Unfair Advantage Scout. ..."

\* what the user submits in the chat input
AppPrompts == { "Hi", " " }

\* generate_session_id(): str(uuid.uuid4()), the n-th identifier generated
Uuid(n) == StrId("uuid-" \o ToString(n))

\* validate_environment() (lines 213-231, 243-248): main returns before it
\* renders any widget unless the three variables are set
EnvValid == api_key = "present" /\ store_env = "valid"

\* full_response: the chunks of the generator, concatenated (lines 366-370)
RECURSIVE Concat(_)
Concat(fs) == IF fs = <<>> THEN "" ELSE Head(fs) \o Concat(Tail(fs))

\* lines 295-325: the chat branch of main appends the greeting to an empty list
RenderChat(ended, msgs) ==
    IF ~ended /\ msgs = <<>> THEN << Msg("assistant", INITIAL_MESSAGE) >> ELSE msgs

\* the number of user messages of the session
Turns(msgs) == Len(SelectSeq(msgs, LAMBDA x : x.role = "user"))

\* the locals of the finished call are dropped (as in Finish)
DropCall ==
    /\ pc' = "idle"
    /\ caller' = "direct"
    /\ session_id' = StrId("")
    /\ messages' = NoneArg
    /\ summary' = None
    /\ evaluation' = None
    /\ attempt' = 0
    /\ result' = "pending"
    /\ sc_result' = "pending"
    /\ calls' = <<>>
    /\ stream' = 0
    /\ yielded' = <<>>

call_vars == <<pc, caller, session_id, messages, summary, evaluation, attempt, result,
               sc_result, calls, stream, yielded>>

\* The state after initialize_session_state (lines 62-99) in the first run
\* of a page: main is about to run.
InitApp ==
    /\ api_key \in { "absent", "present" }
    /\ store_env \in { "absent", "valid" }
    /\ openai_client = "none"
    /\ supabase_client = "none"
    /\ NoCall
    /\ ss_messages = <<>>
    /\ ss_session_id = Uuid(1)
    /\ conversation_ended = FALSE
    /\ error_count = 0
    /\ ui_pc = "render"
    /\ uuids = 1
    /\ store = <<>>
    /\ faults = 0
    /\ threads = <<>>

\* A run of main without a widget event: the first run of the page and the
\* run st.rerun() starts.
AppRender ==
    /\ ui_pc = "render"
    /\ UNCHANGED threads
    /\ ui_pc' = "waiting"
    /\ ss_messages' = IF EnvValid THEN RenderChat(conversation_ended, ss_messages)
                      ELSE ss_messages
    /\ UNCHANGED <<api_key, store_env, openai_client, supabase_client, call_vars,
                   ss_session_id, conversation_ended, error_count, uuids, store, faults>>

\* Mutant of AppStartNew: conversation_ended is not reset.
AppStartNew_KeepsEnded ==
    /\ ui_pc = "waiting"
    /\ UNCHANGED threads
    /\ EnvValid
    /\ uuids < MaxSessions
    /\ ss_messages' = <<>>
    /\ uuids' = uuids + 1
    /\ ss_session_id' = Uuid(uuids + 1)
    /\ conversation_ended' = conversation_ended
    /\ error_count' = 0
    /\ ui_pc' = "render"
    /\ UNCHANGED <<api_key, store_env, openai_client, supabase_client, call_vars, store,
                   faults>>

\* lines 273-274 and 409-410, start_new_conversation (lines 101-113)
AppStartNew ==
    /\ ui_pc = "waiting"
    /\ UNCHANGED threads
    /\ EnvValid
    /\ uuids < MaxSessions
    /\ ss_messages' = <<>>
    /\ uuids' = uuids + 1
    /\ ss_session_id' = Uuid(uuids + 1)
    /\ conversation_ended' = FALSE
    /\ error_count' = 0
    /\ ui_pc' = "render"
    /\ UNCHANGED <<api_key, store_env, openai_client, supabase_client, call_vars, store,
                   faults>>

\* Mutant of AppEndClick: the End button is not disabled by conversation_ended.
AppEndClick_NotDisabled ==
    /\ ui_pc = "waiting"
    /\ UNCHANGED threads
    /\ EnvValid
    /\ UNCHANGED <<ss_session_id, conversation_ended, error_count, uuids, store, faults>>
    /\ IF ss_messages = <<>>
       THEN /\ ss_messages' = RenderChat(conversation_ended, ss_messages)
            /\ UNCHANGED <<api_key, store_env, openai_client, supabase_client, call_vars,
                           ui_pc>>
       ELSE /\ CallSws(ss_session_id, ListArg(ss_messages))
            /\ ui_pc' = "ending"
            /\ UNCHANGED ss_messages

\* lines 276-277: the End Conversation button, disabled once the conversation
\* has ended; end_conversation up to its call of
\* save_conversation_with_summary (lines 115-149)
AppEndClick ==
    /\ ui_pc = "waiting"
    /\ UNCHANGED threads
    /\ EnvValid
    /\ ~conversation_ended
    /\ UNCHANGED <<ss_session_id, conversation_ended, error_count, uuids, store, faults>>
    /\ IF ss_messages = <<>>
       THEN /\ ss_messages' = RenderChat(conversation_ended, ss_messages)
            /\ UNCHANGED <<api_key, store_env, openai_client, supabase_client, call_vars,
                           ui_pc>>
       ELSE /\ CallSws(ss_session_id, ListArg(ss_messages))
            /\ ui_pc' = "ending"
            /\ UNCHANGED ss_messages

\* the inserts the finished call executed
InsertsOfCall ==
    LET ins == SelectSeq(calls, LAMBDA e : e.op = "insert") IN
    [i \in 1..Len(ins) |-> [session_id |-> ins[i].data.session_id, out |-> ins[i].out]]

\* Mutant of AppEndReturn: the conversation is ended whatever the result.
AppEndReturn_AlwaysEnds ==
    /\ ui_pc = "ending"
    /\ UNCHANGED threads
    /\ pc = "done"
    /\ conversation_ended' = TRUE
    /\ ss_messages' = RenderChat(TRUE, ss_messages)
    /\ store' = store \o InsertsOfCall
    /\ faults' = FaultsSoFar
    /\ ui_pc' = "waiting"
    /\ DropCall
    /\ UNCHANGED <<api_key, store_env, openai_client, supabase_client, ss_session_id,
                   error_count, uuids>>

\* lines 151-194: end_conversation takes the result; the run goes on through
\* the rest of main
AppEndReturn ==
    /\ ui_pc = "ending"
    /\ UNCHANGED threads
    /\ pc = "done"
    /\ conversation_ended' = (result = "True")
    /\ ss_messages' = RenderChat(result = "True", ss_messages)
    /\ store' = store \o InsertsOfCall
    /\ faults' = FaultsSoFar
    /\ ui_pc' = "waiting"
    /\ DropCall
    /\ UNCHANGED <<api_key, store_env, openai_client, supabase_client, ss_session_id,
                   error_count, uuids>>

\* Mutant of ChatRequest: the prompt is built before the user message is appended.
ChatRequest_Stale(msgs) == Cmsp(ListArg(SubSeq(msgs, 1, Len(msgs) - 1)))

\* line 355: messages_with_system for the session's messages
ChatRequest(msgs) == Cmsp(ListArg(msgs))

\* lines 329-366: the chat input, rendered while the conversation has not
\* ended.  A blank prompt is refused; otherwise the user message is appended
\* and the reply is requested from get_chat_response.
AppSubmit(prompt) ==
    /\ ui_pc = "waiting"
    /\ UNCHANGED threads
    /\ EnvValid
    /\ ~conversation_ended
    /\ Turns(ss_messages) < MaxTurns
    /\ UNCHANGED <<ss_session_id, conversation_ended, uuids, store, faults>>
    /\ IF Strip(prompt) = ""
       THEN UNCHANGED <<api_key, store_env, openai_client, supabase_client, call_vars,
                        ss_messages, error_count, ui_pc>>
       ELSE LET msgs == Append(ss_messages, Msg("user", prompt))
                req == ChatRequest(msgs)
            IN  CASE req.raised = "none" ->
                       /\ CallGcr(ListArg(req.value))
                       /\ ss_messages' = msgs
                       /\ ui_pc' = "chat"
                       /\ UNCHANGED error_count
                  [] req.raised = "ValueError" ->
                       /\ ss_messages' =
                              Append(msgs, Msg("assistant", "Error: " \o req.error[1]))
                       /\ error_count' = error_count + 1
                       /\ UNCHANGED <<api_key, store_env, openai_client, supabase_client,
                                      call_vars, ui_pc>>
                  [] OTHER ->
                       /\ ss_messages' = msgs
                       /\ error_count' = error_count + 1
                       /\ UNCHANGED <<api_key, store_env, openai_client, supabase_client,
                                      call_vars, ui_pc>>

\* Mutant of AppChatReply: an empty reply is not appended.
AppChatReply_SkipsEmpty ==
    /\ ui_pc = "chat"
    /\ UNCHANGED threads
    /\ pc = "done"
    /\ LET full_response == IF result = "raise" THEN MSG_OTHER ELSE Concat(yielded) IN
       ss_messages' = IF full_response = "" THEN ss_messages
                      ELSE Append(ss_messages, Msg("assistant", full_response))
    /\ error_count' = IF result = "raise" THEN error_count + 1 ELSE error_count
    /\ faults' = FaultsSoFar
    /\ ui_pc' = "waiting"
    /\ DropCall
    /\ UNCHANGED <<api_key, store_env, openai_client, supabase_client, ss_session_id,
                   conversation_ended, uuids, store>>

\* lines 366-390: the generator is drained (an exception out of it gives the
\* apology of line 376) and the assistant message is appended
AppChatReply ==
    /\ ui_pc = "chat"
    /\ UNCHANGED threads
    /\ pc = "done"
    /\ LET full_response == IF result = "raise" THEN MSG_OTHER ELSE Concat(yielded) IN
       ss_messages' = Append(ss_messages, Msg("assistant", full_response))
    /\ error_count' = IF result = "raise" THEN error_count + 1 ELSE error_count
    /\ faults' = FaultsSoFar
    /\ ui_pc' = "waiting"
    /\ DropCall
    /\ UNCHANGED <<api_key, store_env, openai_client, supabase_client, ss_session_id,
                   conversation_ended, uuids, store>>

\* lines 413-414: View Session ID, rendered once the conversation has ended
AppViewSessionId ==
    /\ ui_pc = "waiting"
    /\ EnvValid
    /\ conversation_ended
    /\ UNCHANGED vars

NextApp ==
    \/ AppRender
    \/ AppStartNew
    \/ AppEndClick
    \/ AppEndReturn
    \/ \E prompt \in AppPrompts : AppSubmit(prompt)
    \/ AppChatReply
    \/ AppViewSessionId
    \/ SwsSummary
    \/ SwsEvaluation
    \/ SwsSave
    \/ SwsReturn
    \/ ScAttempt
    \/ GcrAttempt
    \/ GcrStream

SpecApp == InitApp /\ [][NextApp]_vars

(***************************************************************************)
(* Progress.  The script and the functions it calls are sequential code:   *)
(* once a call or a script run has started, its next step is executed (a   *)
(* remote call returns or fails, time.sleep returns).  What the user or a  *)
(* caller does next is not forced.  SpecLive joins one session of the page *)
(* (Start New Conversation runs the same script again on an empty session) *)
(* with direct calls of get_chat_response and                              *)
(* save_conversation_with_summary, which meet any number of remote         *)
(* failures.                                                               *)
(***************************************************************************)
InitLive == Init \/ InitApp

NextLive ==
    \/ AppRender
    \/ AppEndClick
    \/ AppEndReturn
    \/ \E prompt \in AppPrompts : AppSubmit(prompt)
    \/ AppChatReply
    \/ AppViewSessionId
    \/ SwsSummary
    \/ SwsEvaluation
    \/ SwsSave
    \/ SwsReturn
    \/ ScAttempt
    \/ GcrAttempt
    \/ GcrStream
    \/ \E m \in ChatPrompts : ui_pc = "none" /\ CallGcr(m) /\ UNCHANGED ui_vars
    \/ \E m \in ChatPrompts : ui_pc = "none" /\ CallSws(StrId("s1"), m) /\ UNCHANGED ui_vars
    \/ ui_pc = "none" /\ Finish

\* The steps of the program itself.  At most one of them is enabled in any
\* state (pc and ui_pc tell them apart), so one fairness condition covers all.
ProgramStep ==
    \/ GcrAttempt \/ GcrStream
    \/ SwsSummary \/ SwsEvaluation \/ SwsSave \/ SwsReturn \/ ScAttempt
    \/ AppRender \/ AppChatReply \/ AppEndReturn

Fairness == WF_vars(ProgramStep)

SpecLive == InitLive /\ [][NextLive]_vars /\ Fairness

(***************************************************************************)
(* The two client singletons, called directly: a caller makes a sequence   *)
(* of get_openai_client() and get_supabase_client() calls; `calls` is the   *)
(* log of these calls.                                                     *)
(***************************************************************************)
\* Mutant of HolderEmpty: the holder is not looked at, every call constructs.
HolderEmpty_Ignored(holder) == TRUE

\* `if _openai_client is None:` / `if _supabase_client is None:`
HolderEmpty(holder) == holder = "none"

\* One call of a getter: with an empty holder the construction is tried, it
\* succeeds when the environment has the variables (`present`); the client
\* is stored on success, the exception is logged and raised again otherwise.
ClientCall(op, holder, present) ==
    [op |-> op,
     tried |-> HolderEmpty(holder),
     built |-> HolderEmpty(holder) /\ present,
     out |-> IF HolderEmpty(holder) /\ ~present THEN "raise" ELSE "client"]

GetOpenaiClient ==
    /\ pc = "idle"
    /\ Len(calls) < MaxClientCalls
    /\ calls' = Append(calls, ClientCall("get_openai_client", openai_client,
                                         api_key = "present"))
    /\ openai_client' = OpenaiClientAfter(openai_client, api_key)
    /\ UNCHANGED <<api_key, store_env, supabase_client, pc, caller, session_id, messages,
                   summary, evaluation, attempt, result, sc_result, stream, yielded>>
    /\ UNCHANGED ui_vars

GetSupabaseClient ==
    /\ pc = "idle"
    /\ Len(calls) < MaxClientCalls
    /\ calls' = Append(calls, ClientCall("get_supabase_client", supabase_client,
                                         store_env = "valid"))
    /\ supabase_client' = SupabaseClientAfter(supabase_client, store_env)
    /\ UNCHANGED <<api_key, store_env, openai_client, pc, caller, session_id, messages,
                   summary, evaluation, attempt, result, sc_result, stream, yielded>>
    /\ UNCHANGED ui_vars

NextClients == GetOpenaiClient \/ GetSupabaseClient

SpecClients == Init /\ [][NextClients]_vars

(***************************************************************************)
(* The client getters called from several threads (Streamlit runs the      *)
(* script of each session in a thread of its own; the module globals are   *)
(* shared).  The threads race in one getter, named by `caller`; a thread   *)
(* runs the test of the holder, the construction with its assignment, and  *)
(* the return statement as separate steps, and the steps of the threads    *)
(* interleave in any order.  Neither getter takes a lock.                  *)
(***************************************************************************)
Threads == 1..MaxThreads

Getters == { "get_openai_client", "get_supabase_client" }

\* the object the constructor returns to thread t
Instance(t) == "client-" \o ToString(t)

\* the holder of the getter the threads are in, and whether the environment
\* has the variables its constructor needs
RaceHolder == IF caller = "get_openai_client" THEN openai_client ELSE supabase_client

RacePresent ==
    IF caller = "get_openai_client" THEN api_key = "present" ELSE store_env = "valid"

InitRace ==
    /\ api_key \in { "absent", "present" }
    /\ store_env \in { "absent", "valid" }
    /\ openai_client = "none"
    /\ supabase_client = "none"
    /\ pc = "idle"
    /\ caller \in Getters
    /\ session_id = StrId("")
    /\ messages = NoneArg
    /\ summary = None
    /\ evaluation = None
    /\ attempt = 0
    /\ result = "pending"
    /\ sc_result = "pending"
    /\ calls = <<>>
    /\ stream = 0
    /\ yielded = <<>>
    /\ ss_messages = <<>>
    /\ ss_session_id = StrId("")
    /\ conversation_ended = FALSE
    /\ error_count = 0
    /\ ui_pc = "none"
    /\ uuids = 0
    /\ store = <<>>
    /\ faults = 0
    /\ threads = [t \in Threads |-> [at |-> "call", got |-> "none"]]

race_frame == <<api_key, store_env, pc, caller, session_id, messages, summary, evaluation,
                attempt, result, sc_result, stream, yielded, ss_messages, ss_session_id,
                conversation_ended, error_count, ui_pc, uuids, store, faults>>

\* `if _openai_client is None:` (line 19; line 21 of supabase_client.py)
RaceTest(t) ==
    /\ threads[t].at = "call"
    /\ threads' = [threads EXCEPT ![t].at =
                      IF HolderEmpty(RaceHolder) THEN "construct" ELSE "return"]
    /\ UNCHANGED <<openai_client, supabase_client, calls, race_frame>>

\* lines 20-29 (22-40): the constructor is called and its object assigned to
\* the global, or the exception is raised again
RaceConstruct(t) ==
    /\ threads[t].at = "construct"
    /\ IF RacePresent
       THEN /\ threads' = [threads EXCEPT ![t].at = "return"]
            /\ calls' = Append(calls, [op |-> caller, built |-> Instance(t)])
            /\ openai_client' = IF caller = "get_openai_client" THEN Instance(t)
                                 ELSE openai_client
            /\ supabase_client' = IF caller = "get_supabase_client" THEN Instance(t)
                                   ELSE supabase_client
       ELSE /\ threads' = [threads EXCEPT ![t].at = "raised"]
            /\ UNCHANGED <<openai_client, supabase_client, calls>>
    /\ UNCHANGED race_frame

\* `return _openai_client` (line 30; line 41): the global is read again
RaceReturn(t) ==
    /\ threads[t].at = "return"
    /\ threads' = [threads EXCEPT ![t].at = "done", ![t].got = RaceHolder]
    /\ UNCHANGED <<openai_client, supabase_client, calls, race_frame>>

NextRace == \E t \in Threads : RaceTest(t) \/ RaceConstruct(t) \/ RaceReturn(t)

SpecRace == InitRace /\ [][NextRace]_vars

(***************************************************************************)
(* Claims.  Helpers over the effects of the running call.                  *)
(***************************************************************************)
EventsOf(op) == { i \in 1..Len(calls) : calls[i].op = op }

Count(op) == Cardinality(EventsOf(op))

NonEmptyList(m) == m.kind = "list" /\ Len(m.items) > 0

IsPipelineStep(e) == e.op \in { "generate_summary", "generate_evaluation", "save_conversation" }

PipelineSteps == SelectSeq(calls, IsPipelineStep)

Pipeline == << "generate_summary", "generate_evaluation", "save_conversation" >>

SwsDone == caller = "sws" /\ pc = "done"

\* the summary completion call was made and generate_summary logged its failure
SummaryCallFailed ==
    \E i \in EventsOf("log_error") :
        /\ calls[i].context = "Summary generation"
        /\ i > 1
        /\ calls[i - 1].op = "create"

EvaluationSucceeded ==
    /\ evaluation # None
    /\ "error" \notin DOMAIN evaluation[1]

\* C1: for a non-empty message list save_conversation_with_summary runs
\* generate_summary, then generate_evaluation, then save_conversation, and
\* calls save_conversation exactly once whatever the two generation steps did.
C1_PipelineOrder ==
    (caller = "sws" /\ NonEmptyList(messages)) =>
        /\ Len(PipelineSteps) <= Len(Pipeline)
        /\ \A i \in 1..Len(PipelineSteps) : PipelineSteps[i].op = Pipeline[i]
        /\ pc \in { "sc_attempt", "sws_return", "done" } => Len(PipelineSteps) = Len(Pipeline)
        /\ pc = "done" => Count("save_conversation") = 1

\* both generation steps failed and the store was still called once
C1_Witness ==
    /\ SwsDone /\ NonEmptyList(messages)
    /\ summary = Some(SUMMARY_UNABLE)
    /\ evaluation # None /\ "error" \in DOMAIN evaluation[1]
    /\ Count("save_conversation") = 1
    /\ Count("insert") > 0

\* C2: for a non-empty message list save_conversation_with_summary returns
\* True exactly when save_conversation returned True; a failed summary or
\* evaluation never makes the result False.
C2_ResultIsStoreResult ==
    (SwsDone /\ NonEmptyList(messages)) =>
        /\ result \in { "True", "False" }
        /\ result = "True" <=> sc_result = "True"

\* the write succeeded after both generation steps failed: the result is True
C2_Witness ==
    /\ SwsDone /\ NonEmptyList(messages)
    /\ summary = Some(SUMMARY_UNABLE)
    /\ evaluation # None /\ "error" \in DOMAIN evaluation[1]
    /\ sc_result = "True"
    /\ result = "True"

\* C3: when the summary completion call fails and the evaluation succeeds,
\* save_conversation is called with summary absent (no summary in the row)
\* and with the evaluation, and the result is True when the write succeeds.
C3_SummaryAbsent ==
    (SwsDone /\ SummaryCallFailed /\ EvaluationSucceeded) =>
        /\ \A i \in EventsOf("save_conversation") :
              calls[i].summary = None /\ calls[i].evaluation = evaluation
        /\ \A i \in EventsOf("insert") :
              /\ "summary" \notin DOMAIN calls[i].data
              /\ "evaluation" \in DOMAIN calls[i].data
        /\ Count("save_conversation") = 1
        /\ sc_result = "True" => result = "True"

\* C4: save_conversation_with_summary with an empty message list returns
\* False at once: no summary, evaluation or store call is made.
C4_EmptyReturnsFalse ==
    (caller = "sws" /\ messages = ListArg(<<>>)) =>
        /\ pc = "done"
        /\ result = "False"
        /\ calls = <<>>

C4_Witness == SwsDone /\ messages = ListArg(<<>>) /\ result = "False"

TransientKinds == { "rate_limit", "timeout", "connection" }

FailedAt(n, kinds) ==
    \E i \in EventsOf("log_error") : calls[i].n = n /\ calls[i].kind \in kinds

IsYieldOf(n, e) == e.op = "yield" /\ e.n = n

IsThirdYield(e) == IsYieldOf(2, e)

FragmentsOfThird ==
    LET ys == SelectSeq(calls, IsThirdYield) IN [i \in 1..Len(ys) |-> ys[i].text]

TwoTransientThenSuccess ==
    /\ pc = "done"
    /\ result = "returned"
    /\ FailedAt(0, TransientKinds)
    /\ FailedAt(1, TransientKinds)
    /\ ~FailedAt(2, FailKinds)

\* C5: when the first two attempts fail with a rate limit, a timeout or a
\* connection error and the third succeeds, the consumer receives exactly
\* the fragments of the third attempt and create was called three times.
C5_ThirdAttemptOnly ==
    TwoTransientThenSuccess =>
        /\ yielded = FragmentsOfThird
        /\ \A i \in 1..Len(yielded) : yielded[i] \in { "Hel", "lo" }
        /\ Count("create") = 3

C5_Witness ==
    /\ TwoTransientThenSuccess
    /\ yielded = << "Hel", "lo" >>

\* C6: an authentication failure ends get_chat_response at the attempt where
\* it occurs: the fixed authentication message is yielded, no sleep and no
\* further attempt follow; on the first attempt create was called once.
C6_AuthTerminal ==
    \A i \in EventsOf("log_error") :
        calls[i].kind = "auth" =>
            /\ pc = "done"
            /\ Len(calls) = i + 1
            /\ calls[i + 1] = [op |-> "yield", text |-> MSG_AUTH, n |-> calls[i].n]
            /\ yielded[Len(yielded)] = MSG_AUTH
            /\ attempt = calls[i].n
            /\ calls[i].n = 0 => (Count("create") = 1 /\ Count("sleep") = 0)

\* the authentication failure comes after a transient failure
C6_Witness ==
    /\ pc = "done"
    /\ FailedAt(0, TransientKinds)
    /\ FailedAt(1, { "auth" })
    /\ Count("sleep") = 1

\* the placeholder the claim expects for each kind of failure
PlaceholderOf ==
    [k \in FailKinds |->
        CASE k = "rate_limit" -> MSG_RATE_LIMIT
          [] k = "timeout" -> MSG_TIMEOUT
          [] k = "connection" -> MSG_CONNECTION
          [] k = "auth" -> MSG_AUTH
          [] OTHER -> MSG_OTHER]

\* C7: whatever the failures, get_chat_response makes at most three
\* attempts, does not raise, and a failure of the last allowed attempt
\* yields the placeholder of that failure's kind.
C7_BoundedNoRaise ==
    /\ attempt < gcr_max_retries
    /\ Count("create") <= gcr_max_retries
    /\ result # "raise"
    /\ \A i \in EventsOf("log_error") :
          calls[i].n = gcr_max_retries - 1 =>
              /\ pc = "done"
              /\ Len(calls) = i + 1
              /\ calls[i + 1].op = "yield"
              /\ calls[i + 1].text = PlaceholderOf[calls[i].kind]
              /\ yielded[Len(yielded)] = PlaceholderOf[calls[i].kind]

\* a rate limit, another error, then a timeout on the last attempt
C7_Witness ==
    /\ pc = "done"
    /\ FailedAt(0, { "rate_limit" })
    /\ FailedAt(1, { "other" })
    /\ FailedAt(2, { "timeout" })
    /\ yielded[Len(yielded)] = MSG_TIMEOUT

\* C8: save_conversation with valid input executes the write at most three
\* times: a write that raises is followed by a backoff and another attempt,
\* or by False after the third attempt; a write that returns rows ends the
\* call with True and nothing follows it.
C8_WriteRetries ==
    (pc \in { "sc_attempt", "sws_return", "done" } /\ ~ValidationFails(session_id, messages)) =>
        /\ Count("insert") <= sc_max_retries
        /\ \A i \in EventsOf("insert") :
              /\ calls[i].out = "data" => (i = Len(calls) /\ sc_result = "True")
              /\ (calls[i].out = "raise" /\ calls[i].n < sc_max_retries - 1) =>
                    /\ calls[i + 1].op = "sleep"
                    /\ IF i + 1 = Len(calls)
                       THEN pc = "sc_attempt" /\ attempt = calls[i].n + 1
                       ELSE calls[i + 2] = [op |-> "attempt", n |-> calls[i].n + 1]
              /\ (calls[i].out = "raise" /\ calls[i].n = sc_max_retries - 1) =>
                    (i = Len(calls) /\ sc_result = "False")
        /\ sc_result = "True" => calls[Len(calls)].op = "insert"

\* two writes raised, the third returned rows
C8_Witness ==
    /\ pc = "done"
    /\ ~ValidationFails(session_id, messages)
    /\ Count("insert") = sc_max_retries
    /\ sc_result = "True"

\* three writes raised
C8_WitnessExhausted ==
    /\ pc = "done"
    /\ ~ValidationFails(session_id, messages)
    /\ Count("insert") = sc_max_retries
    /\ sc_result = "False"
    /\ calls[Len(calls)].out = "raise"

\* C9: save_conversation with an empty message list returns False and never
\* obtains the store client or executes an insert.
C9_EmptyNoWrite ==
    (pc \in { "sc_attempt", "done" } /\ caller = "direct" /\ messages = ListArg(<<>>)
        /\ Count("save_conversation") = 1) =>
        /\ Count("insert") = 0
        /\ Count("get_supabase_client") = 0
        /\ pc = "done" => result = "False"

C9_Witness ==
    /\ pc = "done" /\ caller = "direct" /\ messages = ListArg(<<>>)
    /\ session_id = StrId("s1")
    /\ store_env = "valid"
    /\ Count("save_conversation") = 1
    /\ result = "False"

\* C10: a validation failure in save_conversation is evaluated in exactly
\* one attempt and no backoff sleep precedes the False it returns.
C10_ValidationFailsFast ==
    (Count("save_conversation") = 1 /\ ValidationFails(session_id, messages)
        /\ sc_result = "False") =>
        /\ Count("attempt") = 1
        /\ Count("sleep") = 0

\* C11: save_conversation never raises: whatever its arguments and whatever
\* the store client or the write does, the call ends by returning True or
\* False to its caller.
C11_NeverRaises ==
    /\ sc_result \in { "pending", "True", "False" }
    /\ (caller = "direct" /\ pc = "done") => result \in { "True", "False" }

CmspDone == caller = "cmsp" /\ pc = "done"

\* the list CallCmsp returned
CmspReturned == calls[Len(calls)].value

\* a text message with role r
IsTextMsg(x) ==
    /\ DOMAIN x = { "role", "content" }
    /\ x.role \in { "user", "assistant" }

\* a valid history: a non-empty list of text messages of user and assistant
ValidHistory(h) ==
    /\ NonEmptyList(h)
    /\ \A i \in 1..Len(h.items) : IsTextMsg(h.items[i])

\* C17: for a valid history create_messages_with_system_prompt returns a
\* list one longer than the history: the fixed system message first, then
\* the history in its order; exactly one element has the role system.
C17_PrependsSystem ==
    (CmspDone /\ ValidHistory(messages)) =>
        /\ result = "returned"
        /\ calls[Len(calls)].op = "return"
        /\ Len(CmspReturned) = Len(messages.items) + 1
        /\ CmspReturned[1] = [role |-> "system", content |-> SYSTEM_PROMPT]
        /\ \A i \in 1..Len(messages.items) : CmspReturned[i + 1] = messages.items[i]
        /\ Cardinality({ i \in 1..Len(CmspReturned) : CmspReturned[i].role = "system" }) = 1

\* a two-message history with a blank content is returned behind the system message
C17_Witness ==
    /\ CmspDone
    /\ messages = ListArg(<< Msg("assistant", "Hello"), Msg("user", " ") >>)
    /\ result = "returned"
    /\ Len(CmspReturned) = 3
    /\ Count("log_warning") = 1

\* the invalid histories the claim lists
InvalidHistory(h) ==
    \/ h = ListArg(<<>>)
    \/ h.kind # "list"
    \/ \E i \in 1..Len(h.items) :
          LET x == h.items[i] IN
          /\ IsDict(x)
          /\ \/ ~HasKey(x, "role")
             \/ ~HasKey(x, "content")
             \/ (IsStrField(x, "role") /\ x.role \notin { "user", "assistant" })
             \/ ~IsStrField(x, "content")

\* C18: for an empty history, a non-list, an element without role or
\* without content, a role other than user and assistant, or a non-text
\* content, create_messages_with_system_prompt raises its validation error
\* (ValueError) and returns no list.
C18_InvalidRaisesValueError ==
    (CmspDone /\ InvalidHistory(messages)) =>
        /\ result = "ValueError"
        /\ Count("return") = 0

(***************************************************************************)
(* Claims about the page (SpecApp).                                        *)
(***************************************************************************)
\* the texts of the model that contain the sentinel: one or more sentinel
\* fragments, possibly followed by the placeholder of a failed attempt
SentinelTexts ==
    { Concat([i \in 1..n |-> SENTINEL]) \o tail :
        n \in 1..(gcr_max_retries * MaxChunks),
        tail \in { "" } \cup { PlaceholderOf[k] : k \in FailKinds } }

ContainsSentinel(text) == text \in SentinelTexts

IsSentinelReply(x) == x.role = "assistant" /\ ContainsSentinel(x.content)

\* the inserts executed so far with session id sid: those of the finished
\* End actions and those of the running one
InsertsFor(sid) ==
    Len(SelectSeq(store, LAMBDA e : e.session_id = sid))
        + Len(SelectSeq(calls, LAMBDA e : e.op = "insert" /\ e.data.session_id = sid))

\* C12: over any sequence of chat turns, End Conversation clicks and Start
\* New Conversation clicks, at most one store insert is executed for any
\* session_id.
C12_OneInsertPerSession == \A n \in 1..uuids : InsertsFor(Uuid(n)) <= 1

\* C13: a session is saved (conversation_ended is true) only if an assistant
\* reply containing the completion sentinel was appended to it before.
C13_SavedOnlyWhenComplete ==
    conversation_ended => \E i \in 1..Len(ss_messages) : IsSentinelReply(ss_messages[i])

\* C14: once an assistant reply containing the sentinel has been appended
\* to a session, no further user message is accepted into that session.
C14_NoInputAfterSentinel ==
    \A i \in 1..Len(ss_messages) : \A j \in 1..Len(ss_messages) :
        (i < j /\ IsSentinelReply(ss_messages[i])) => ss_messages[j].role # "user"

C20_PromptIsHistory ==
    ui_pc = "chat" =>
        LET prompt == << [role |-> "system", content |-> SYSTEM_PROMPT] >> \o ss_messages IN
        /\ ss_messages[Len(ss_messages)].role = "user"
        /\ messages = [kind |-> "list", items |-> prompt]
        /\ \A i \in EventsOf("create") : calls[i].messages.items = prompt

\* the second attempt of the second request has been made
C20_Witness ==
    /\ ui_pc = "chat"
    /\ Turns(ss_messages) = 2
    /\ Count("create") = 2
    /\ calls[Len(calls)].op = "create"

\* C21: every message of the session has role user or assistant and a
\* content that is non-empty after trimming, the assistant messages appended
\* after a reply without fragments or a failed request included.
C21_ContentNonEmpty ==
    \A i \in 1..Len(ss_messages) :
        /\ ss_messages[i].role \in { "user", "assistant" }
        /\ Strip(ss_messages[i].content) # ""

\* C22: the step of start_new_conversation (the one that generates a session
\* id) leaves an empty message list, conversation_ended false, error_count 0
\* and a session_id that no earlier session of the page had.
C22_ReplacesWholesale ==
    [][uuids' # uuids =>
          /\ ss_messages' = <<>>
          /\ conversation_ended' = FALSE
          /\ error_count' = 0
          /\ \A n \in 1..uuids : ss_session_id' # Uuid(n)
          /\ ss_session_id' = Uuid(uuids')]_vars

\* a new conversation has been started from a saved session
C22_Witness ==
    /\ uuids = 2
    /\ ui_pc = "render"
    /\ ss_messages = <<>>
    /\ ~conversation_ended
    /\ ss_session_id = Uuid(2)
    /\ \E i \in 1..Len(store) : store[i] = [session_id |-> Uuid(1), out |-> "data"]

\* C23: with the completion key present and the storage variables absent the
\* chat still works: once a run of the page has finished, the chat interface
\* has been rendered (the greeting is in the message list) and the user's
\* turns are accepted.
C23_ChatWithoutStore ==
    (api_key = "present" /\ store_env = "absent" /\ ui_pc \in { "waiting", "chat" })
        => ss_messages # <<>>

(***************************************************************************)
(* Claims about generate_summary and generate_evaluation, called directly. *)
(***************************************************************************)
GsDone == caller = "generate_summary" /\ pc = "done"

GeDone == caller = "generate_evaluation" /\ pc = "done"

\* the last effect of a finished generator call: what it returned
Outcome == calls[Len(calls)]

\* the completion call was made and answered with a text
AnsweredWith(shape) ==
    /\ Count("create") = 1
    /\ Outcome.reply.ok
    /\ Outcome.reply.content # None
    /\ Outcome.reply.content[1].shape = shape

\* C24: when the answer to the evaluation request does not parse as JSON,
\* generate_evaluation returns (does not raise) the neutral record with the
\* error "Failed to parse evaluation JSON" and a raw_response of the first
\* 200 characters of the answer, followed by an ellipsis when it was longer.
C24_ParseFailureRecord ==
    (GeDone /\ AnsweredWith("prose")) =>
        LET len == Outcome.reply.content[1].len IN
        /\ result = "returned"
        /\ Outcome.value =
              [sentiment |-> "neutral", key_topics |-> <<>>, user_satisfaction |-> 5,
               conversation_quality |-> 5, main_concerns |-> <<>>,
               resolution_status |-> "unresolved",
               error |-> << "Failed to parse evaluation JSON", "" >>,
               raw_response |-> [chars |-> IF len > 200 THEN 200 ELSE len,
                                 ellipsis |-> len > 200]]

\* an answer of 201 characters of prose has been cut to 200 and an ellipsis
C24_Witness ==
    /\ GeDone
    /\ AnsweredWith("prose")
    /\ Outcome.reply.content[1].len = 201
    /\ result = "returned"
    /\ Outcome.value.raw_response = [chars |-> 200, ellipsis |-> TRUE]

\* the value a required field has in the neutral record
NeutralDefault(f) ==
    CASE f = "sentiment" -> "neutral"
      [] f \in { "user_satisfaction", "conversation_quality" } -> 5
      [] f = "resolution_status" -> "unresolved"
      [] OTHER -> <<>>

\* C25: when the answer is a JSON object without some of the six required
\* fields, generate_evaluation returns that object with its fields as they
\* were and each missing field set to its neutral default.
C25_BackfillsMissing ==
    (GeDone /\ AnsweredWith("object")) =>
        LET obj == Outcome.reply.content[1].obj IN
        /\ result = "returned"
        /\ \A i \in 1..Len(required_fields) :
              LET f == required_fields[i] IN
              /\ f \in DOMAIN Outcome.value
              /\ Outcome.value[f] = IF f \in DOMAIN obj THEN obj[f] ELSE NeutralDefault(f)

\* C26: when the answer is free-form text, generate_evaluation returns it
\* under an evaluation_text field with a type tag, not an error record.
C26_FreeTextKept ==
    (GeDone /\ AnsweredWith("prose")) =>
        /\ result = "returned"
        /\ { "evaluation_text", "type" } \subseteq DOMAIN Outcome.value
        /\ "error" \notin DOMAIN Outcome.value

\* a transcript without content: a list (possibly empty) of dicts with a
\* role whose content is missing, empty or blank
BlankTranscript(m) ==
    /\ m.kind = "list"
    /\ \A i \in 1..Len(m.items) :
          /\ HasKey(m.items[i], "role")
          /\ HasKey(m.items[i], "content") => Strip(m.items[i].content) = ""

\* C27: for a transcript without content generate_summary returns its
\* placeholder text and generate_evaluation its placeholder record (the one
\* for an empty list, the other for a list without content), without
\* raising and without a completion call.
C27_BlankPlaceholders ==
    /\ (GsDone /\ BlankTranscript(messages)) =>
          /\ result = "returned"
          /\ Count("create") = 0
          /\ Outcome.value = IF messages.items = <<>>
                             THEN "No conversation to summarize."
                             ELSE "No meaningful conversation content to summarize."
    /\ (GeDone /\ BlankTranscript(messages)) =>
          /\ result = "returned"
          /\ Count("create") = 0
          /\ Outcome.value =
                [sentiment |-> "neutral", key_topics |-> <<>>, user_satisfaction |-> 5,
                 conversation_quality |-> 5, main_concerns |-> <<>>,
                 resolution_status |-> "unresolved",
                 error |-> IF messages.items = <<>>
                           THEN << "No conversation to evaluate", "" >>
                           ELSE << "No meaningful conversation content to evaluate", "" >>]

\* C28: when the completion call of generate_summary or generate_evaluation
\* fails with a transient failure (rate limit, timeout, connection), the call
\* is made again before the result degrades to the failure result.
C28_EnrichmentRetries ==
    ((GsDone \/ GeDone) /\ Count("create") > 0 /\ ~Outcome.reply.ok
        /\ Outcome.reply.kind \in TransientKinds)
        => Count("create") > 1

(***************************************************************************)
(* Claims about progress (SpecLive).                                       *)
(***************************************************************************)
\* nothing is running: no call, no script run
Quiet == ui_pc \in { "none", "waiting" } /\ pc \in { "idle", "done" }

\* C29: under every sequence of remote failures whatever is running comes to
\* its end (a chat turn, an End Conversation action, a call); the step that
\* ends a chat turn appends an assistant message, the step that ends an End
\* Conversation action sets conversation_ended exactly when the save
\* succeeded (the other branch shows the failure message); and no retry
\* loop starts an iteration after its third.
C29_NeverHangs ==
    /\ [](attempt < 3)
    /\ []<>Quiet
    /\ [][(ui_pc = "chat" /\ ui_pc' # "chat") =>
              /\ ui_pc' = "waiting"
              /\ Len(ss_messages') = Len(ss_messages) + 1
              /\ ss_messages'[Len(ss_messages')].role = "assistant"]_vars
    /\ [][(ui_pc = "ending" /\ ui_pc' # "ending") =>
              /\ ui_pc' = "waiting"
              /\ conversation_ended' = (result = "True")]_vars

\* a session with a chat turn was ended and saved by the retry after a
\* failed write
C29_Witness ==
    /\ ui_pc = "waiting"
    /\ conversation_ended
    /\ Len(ss_messages) = 3
    /\ store = << [session_id |-> ss_session_id, out |-> "raise"],
                  [session_id |-> ss_session_id, out |-> "data"] >>

(***************************************************************************)
(* Claims about the client singletons (SpecClients).                       *)
(***************************************************************************)
CallsOf(op) == SelectSeq(calls, LAMBDA e : e.op = op)

\* the calls of getter op so far, against its holder
LazySingleton(op, holder) ==
    LET cs == CallsOf(op) IN
    /\ holder = "client" <=> \E i \in 1..Len(cs) : cs[i].built
    /\ \A i \in 1..Len(cs) : \A j \in 1..Len(cs) :
          (i < j /\ cs[i].built) => (~cs[j].tried /\ ~cs[j].built /\ cs[j].out = "client")
    /\ \A i \in 1..Len(cs) : cs[i].out = "raise" <=> (cs[i].tried /\ ~cs[i].built)
    /\ \A i \in 1..(Len(cs) - 1) : cs[i].out = "raise" => cs[i + 1].tried

\* C30: for each of the two getters: the holder is filled exactly when some
\* call constructed the client (so it is empty before the first call and
\* after failed constructions); after a construction every later call
\* returns the client without constructing; a call raises exactly when its
\* construction failed, and the call after a failed one tries again.
C30_LazySingletons ==
    /\ LazySingleton("get_openai_client", openai_client)
    /\ LazySingleton("get_supabase_client", supabase_client)

\* the completion client was constructed once and returned again; the store
\* client failed twice, tried both times
C30_Witness ==
    LET oc == CallsOf("get_openai_client")
        sc == CallsOf("get_supabase_client")
    IN  /\ Len(oc) = 2 /\ oc[1].built /\ ~oc[2].tried /\ oc[2].out = "client"
        /\ Len(sc) = 2 /\ sc[1].out = "raise" /\ sc[2].tried /\ sc[2].out = "raise"
        /\ supabase_client = "none"

(***************************************************************************)
(* Claims about the retry loops (SpecLive, SpecChat, Spec).                *)
(***************************************************************************)
\* a failure logged by an except clause of get_chat_response
IsGcrFailure(e) == e.op = "log_error" /\ "kind" \in DOMAIN e

\* the attempt of save_conversation during which event i happened
ScAttemptOf(i) ==
    LET j == CHOOSE j \in 1..i :
                 /\ calls[j].op = "attempt"
                 /\ \A l \in (j + 1)..i : calls[l].op # "attempt"
    IN  calls[j].n

\* C31: a sleep of get_chat_response follows a failure at attempt k < 2 and
\* lasts 2^k after a rate limit (1, then 2) and 1 after a timeout or a
\* connection failure, and each such failure at k < 2 is followed by its
\* sleep; a sleep of save_conversation follows a failed attempt k < 2 and
\* lasts 2^k; no sleep follows the third failed attempt of either.
C31_BackoffDelays ==
    /\ \A i \in EventsOf("sleep") :
          /\ i > 1
          /\ IF IsGcrFailure(calls[i - 1])
             THEN /\ calls[i - 1].n < 2
                  /\ calls[i - 1].kind = "rate_limit" => calls[i].secs = 2 ^ calls[i - 1].n
                  /\ calls[i - 1].kind \in { "timeout", "connection" } => calls[i].secs = 1
             ELSE /\ calls[i - 1].op \in { "attempt", "get_supabase_client", "insert" }
                  /\ ScAttemptOf(i) < 2
                  /\ calls[i].secs = 2 ^ ScAttemptOf(i)
    /\ \A i \in 1..Len(calls) :
          (IsGcrFailure(calls[i]) /\ calls[i].kind \in { "rate_limit", "timeout", "connection" }) =>
              IF calls[i].n < 2
              THEN i < Len(calls) /\ calls[i + 1].op = "sleep"
              ELSE i < Len(calls) /\ calls[i + 1].op # "sleep"
    /\ \A i \in EventsOf("insert") :
          calls[i].out = "raise" =>
              IF calls[i].n < 2
              THEN i < Len(calls) /\ calls[i + 1].op = "sleep"
              ELSE i = Len(calls)

\* two rate limits were followed by sleeps of 1 and 2, the third failure by none
C31_Witness ==
    /\ ui_pc = "none"
    /\ pc = "done"
    /\ FailedAt(0, { "rate_limit" })
    /\ FailedAt(1, { "rate_limit" })
    /\ FailedAt(2, { "rate_limit" })
    /\ Count("sleep") = 2
    /\ \E i \in EventsOf("sleep") : calls[i].secs = 2

\* C32: get_chat_response makes another attempt after a failure exactly
\* when the failure is a rate limit, a timeout or a connection failure (and
\* an attempt is left): after a failure of any other kind the placeholder is
\* yielded at once and the call ends.
C32_RetriedKinds ==
    \A i \in EventsOf("log_error") :
        IF calls[i].kind \in { "rate_limit", "timeout", "connection" } /\ calls[i].n < 2
        THEN i < Len(calls) /\ calls[i + 1].op = "sleep"
        ELSE /\ i + 1 = Len(calls)
             /\ calls[i + 1].op = "yield"
             /\ pc = "done"

\* C33: when the page has drained get_chat_response, what it accumulated for
\* the assistant message is the fragments of one attempt or one placeholder:
\* all the yields belong to the same attempt, and a placeholder (the yield
\* of an except clause) is the only yield.
C33_OneAttemptOrPlaceholder ==
    (ui_pc = "chat" /\ pc = "done") =>
        /\ \A i \in EventsOf("yield") : \A j \in EventsOf("yield") : calls[i].n = calls[j].n
        /\ \A i \in EventsOf("yield") :
              (i > 1 /\ calls[i - 1].op = "log_error") => Count("yield") = 1

(***************************************************************************)
(* Claims about the client getters under concurrency (SpecRace).           *)
(***************************************************************************)
\* C34: however the steps of the threads interleave, at most one client is
\* constructed and the threads that have returned hold the same instance.
C34_OneInstance ==
    /\ Len(calls) <= 1
    /\ \A t \in Threads : \A u \in Threads :
          (threads[t].at = "done" /\ threads[u].at = "done") =>
              threads[t].got = threads[u].got

(***************************************************************************)
(* Claims about End Conversation (SpecApp) and the store write (Spec).     *)
(***************************************************************************)
\* C35: the step that ends an End Conversation action whose save did not
\* succeed leaves conversation_ended false and the messages and the
\* session_id as they were, with the page waiting for the user: the End
\* button is enabled and a click saves the same session again.
C35_FailedEndKeepsSession ==
    [][(ui_pc = "ending" /\ ui_pc' # "ending" /\ result # "True") =>
          /\ conversation_ended' = FALSE
          /\ ss_messages' = ss_messages
          /\ ss_session_id' = ss_session_id
          /\ ui_pc' = "waiting"
          /\ pc' = "idle"]_vars

\* after a save that failed the user has clicked End Conversation again,
\* for the same session
C35_Witness ==
    /\ ui_pc = "ending"
    /\ store # <<>>
    /\ \A i \in 1..Len(store) : store[i].session_id = ss_session_id /\ store[i].out # "data"
    /\ session_id = ss_session_id
    /\ messages = ListArg(ss_messages)

\* the inserts of the call in progress that returned without data
NoDataInserts == { i \in EventsOf("insert") : calls[i].out = "nodata" }

\* C36 as stated: an insert that returns no data ends save_conversation with
\* False at once, with no retry and no sleep after it, and it is the only
\* insert of the call.
C36_NoDataOnlyInsert ==
    \A i \in NoDataInserts :
        /\ sc_result = "False"
        /\ \A j \in (i + 1)..Len(calls) : calls[j].op \notin { "attempt", "sleep", "insert" }
        /\ Cardinality(EventsOf("insert")) <= 1

\* C36, amended: an insert that returns no data ends save_conversation with
\* False at once: no attempt, sleep or insert follows it in the call.  It is
\* the insert of attempt 0, 1 or 2, each earlier attempt having failed by
\* raising, so that the call has executed at most three inserts.
C36_NoDataEndsCall ==
    \A i \in NoDataInserts :
        /\ sc_result = "False"
        /\ \A j \in (i + 1)..Len(calls) : calls[j].op \notin { "attempt", "sleep", "insert" }
        /\ calls[i].n = ScAttemptOf(i)
        /\ calls[i].n < sc_max_retries
        /\ \A j \in EventsOf("insert") : j < i => calls[j].out = "raise" /\ calls[j].n < calls[i].n
        /\ Cardinality(EventsOf("insert")) <= calls[i].n + 1

\* the second insert of a call returned no data, after the first one raised
C36_Witness ==
    \E i \in NoDataInserts :
        /\ calls[i].n = 1
        /\ Cardinality(EventsOf("insert")) = 2
        /\ sc_result = "False"

====
